---- MODULE Spec2Model ----
(***************************************************************************)
(* Maze game (ebradeve/mataha): the maze generator, the path finder, the   *)
(* level session and the motion controller of the two variants             *)
(* src/index.tsx ("index") and src/unnamed/part_000 ("part").              *)
(***************************************************************************)
EXTENDS Integers, Sequences, FiniteSets, TLC

\* ------------------------------------------------------------------ bounds
\* Largest grid side of the stand-alone generator specification SpecMaze.
MaxSize == 3
\* The level counter is capped: no level advance beyond MaxLevel.
MaxLevel == 2
\* Largest level of the level-setup specification SpecSetup.
MaxSetupLevel == 9
\* Most keys and buttons held down at a time in SpecKeys.
MaxHeld == 1

\* --------------------------------------------------------------- constants
TOTAL_STARS == 3

VARIABLES
    variant,            \* "index" (src/index.tsx) or "part" (src/unnamed/part_000)
    level,
    maze,               \* maze[y][x]: the cell record
    mazeSize,
    player,             \* logical grid position
    playerRenderPos,    \* rendered position, see RenderAt
    exit,
    stars,              \* sequence of positions
    collectedStars,
    gameState,
    isAnimating,
    currentDirection,   \* index only
    desiredDirection,   \* index only
    keysDown,           \* part only
    timers,             \* number of pending level-advance callbacks (setTimeout)
    stack,              \* generateMaze's local stack (SpecMaze only)
    iterations,         \* history: the iterations generateMaze's loop has made
                        \* (SpecMaze only)
    held,               \* environment: the keys and buttons physically held
                        \* down (SpecKeys only)
    setupCalls,         \* history: the calls of setupLevel made in a row, with
                        \* no other operation since (0, 1, or 2 for two or more)
    last                \* history: the last operation other than a movement
                        \* input, and the state that operation began in (the
                        \* inputs change none of the recorded fields)

vars == <<variant, level, maze, mazeSize, player, playerRenderPos, exit, stars,
          collectedStars, gameState, isAnimating, currentDirection,
          desiredDirection, keysDown, timers, stack, iterations, held,
          setupCalls, last>>

\* ------------------------------------------------------------------- types
Position(x, y) == [x |-> x, y |-> y]

Cells(n) == {Position(x, y) : x \in 0..(n - 1), y \in 0..(n - 1)}

NoDirection == [dx |-> 0, dy |-> 0]

Directions == {[dx |-> 0, dy |-> -1], [dx |-> 0, dy |-> 1],
               [dx |-> -1, dy |-> 0], [dx |-> 1, dy |-> 0]}

\* Math.random() in tenths: the values 0.1 and 0.9 (the first and the last
\* neighbour of every choice, an exit row near the top and the bottom one)
RandomValues == {1, 9}

\* Math.floor(Math.random() * k), r in tenths
randomIndex(r, k) == (r * k) \div 10

\* ------------------------------------------------------------ generateMaze
FreshCell == [top |-> TRUE, right |-> TRUE, bottom |-> TRUE, left |-> TRUE,
              visited |-> FALSE]

\* the grid of fully walled cells, the start cell left unvisited
initialMazeUnvisitedStart(n) ==
    [y \in 0..(n - 1) |-> [x \in 0..(n - 1) |-> FreshCell]]

\* the grid of fully walled cells with the start cell marked visited
initialMaze(n) ==
    [y \in 0..(n - 1) |-> [x \in 0..(n - 1) |->
        IF x = 0 /\ y = 0 THEN [FreshCell EXCEPT !.visited = TRUE] ELSE FreshCell]]

\* the unvisited neighbours of current, in the order top, right, bottom, left
neighborsOf(mz, n, current) ==
    (IF current.y > 0 /\ ~mz[current.y - 1][current.x].visited
        THEN <<[pos |-> Position(current.x, current.y - 1), wall |-> "top",
                oppositeWall |-> "bottom"]>> ELSE <<>>)
    \o (IF current.x < n - 1 /\ ~mz[current.y][current.x + 1].visited
        THEN <<[pos |-> Position(current.x + 1, current.y), wall |-> "right",
                oppositeWall |-> "left"]>> ELSE <<>>)
    \o (IF current.y < n - 1 /\ ~mz[current.y + 1][current.x].visited
        THEN <<[pos |-> Position(current.x, current.y + 1), wall |-> "bottom",
                oppositeWall |-> "top"]>> ELSE <<>>)
    \o (IF current.x > 0 /\ ~mz[current.y][current.x - 1].visited
        THEN <<[pos |-> Position(current.x - 1, current.y), wall |-> "left",
                oppositeWall |-> "right"]>> ELSE <<>>)

\* a carving that opens the wall on the current cell's side only
carveOneSided(mz, current, nb) ==
    LET m1 == [mz EXCEPT ![current.y][current.x][nb.wall] = FALSE]
    IN  [m1 EXCEPT ![nb.pos.y][nb.pos.x].visited = TRUE]

\* open the wall between current and the chosen neighbour on both sides and
\* mark the neighbour visited
carve(mz, current, nb) ==
    LET m1 == [mz EXCEPT ![current.y][current.x][nb.wall] = FALSE]
        m2 == [m1 EXCEPT ![nb.pos.y][nb.pos.x][nb.oppositeWall] = FALSE]
    IN  [m2 EXCEPT ![nb.pos.y][nb.pos.x].visited = TRUE]

\* one iteration of the while loop on s = [maze, stack], the neighbour taken
\* at index idx (0-based) of neighbors
mazeLoopBody(s, n, idx) ==
    LET current == s.stack[Len(s.stack)]
        neighbors == neighborsOf(s.maze, n, current)
    IN  IF Len(neighbors) > 0
        THEN [maze |-> carve(s.maze, current, neighbors[idx + 1]),
              stack |-> Append(s.stack, neighbors[idx + 1].pos)]
        ELSE [maze |-> s.maze, stack |-> SubSeq(s.stack, 1, Len(s.stack) - 1)]

\* the loop test and one iteration, Math.random() returning r
mazeLoopStep(s, n, r) ==
    IF Len(s.stack) = 0 THEN s
    ELSE mazeLoopBody(s, n,
            randomIndex(r, Len(neighborsOf(s.maze, n, s.stack[Len(s.stack)]))))

\* k iterations of the loop (by halving, to keep the evaluation shallow)
RECURSIVE mazeLoopSteps(_, _, _, _)
mazeLoopSteps(s, k, n, r) ==
    IF k = 0 \/ Len(s.stack) = 0 THEN s
    ELSE IF k = 1 THEN mazeLoopStep(s, n, r)
    ELSE mazeLoopSteps(mazeLoopSteps(s, k \div 2, n, r), k - (k \div 2), n, r)

\* while (stack.length > 0): blocks of k, 2k, 4k, ... iterations until the
\* stack is empty
RECURSIVE mazeLoop(_, _, _, _)
mazeLoop(s, k, n, r) ==
    IF Len(s.stack) = 0 THEN s.maze
    ELSE mazeLoop(mazeLoopSteps(s, k, n, r), 2 * k, n, r)

generateMaze(n, r) ==
    mazeLoop([maze |-> initialMaze(n), stack |-> <<Position(0, 0)>>], 1, n, r)

\* -------------------------------------------------------- findShortestPath
\* the key `${x},${y}` of the visited set and of the parent map: one key per
\* pair of integer coordinates
key(p) == <<p.x, p.y>>

\* neighbours taken without looking at the left wall
pathNeighborsThroughWall(mz, n, x, y) ==
    LET cell == mz[y][x]
    IN  (IF ~cell.top /\ y > 0 THEN <<Position(x, y - 1)>> ELSE <<>>)
        \o (IF ~cell.right /\ x < n - 1 THEN <<Position(x + 1, y)>> ELSE <<>>)
        \o (IF ~cell.bottom /\ y < n - 1 THEN <<Position(x, y + 1)>> ELSE <<>>)
        \o (IF x > 0 THEN <<Position(x - 1, y)>> ELSE <<>>)

\* the passable neighbours of the cell at (x, y), in the order top, right,
\* bottom, left
pathNeighbors(mz, n, x, y) ==
    LET cell == mz[y][x]
    IN  (IF ~cell.top /\ y > 0 THEN <<Position(x, y - 1)>> ELSE <<>>)
        \o (IF ~cell.right /\ x < n - 1 THEN <<Position(x + 1, y)>> ELSE <<>>)
        \o (IF ~cell.bottom /\ y < n - 1 THEN <<Position(x, y + 1)>> ELSE <<>>)
        \o (IF ~cell.left /\ x > 0 THEN <<Position(x - 1, y)>> ELSE <<>>)

\* the loop over the neighbours of current on s = [queue, visited, parentMap]
RECURSIVE enqueueNeighbors(_, _, _, _)
enqueueNeighbors(neighbors, i, current, s) ==
    IF i > Len(neighbors) THEN s
    ELSE LET neighbor == neighbors[i]
             k == key(neighbor)
         IN  IF k \notin s.visited
             THEN enqueueNeighbors(neighbors, i + 1, current,
                    [s EXCEPT !.queue = Append(s.queue, neighbor),
                              !.visited = s.visited \cup {k},
                              !.parentMap = (k :> current) @@ s.parentMap])
             ELSE enqueueNeighbors(neighbors, i + 1, current, s)

\* one iteration of "while (curr)" on w = [curr, path, done]:
\* path.unshift(curr); curr = parentMap.get(key of curr)
reconstructStep(w, parentMap) ==
    IF w.done THEN w
    ELSE IF key(w.curr) \in DOMAIN parentMap
    THEN [curr |-> parentMap[key(w.curr)], path |-> <<w.curr>> \o w.path,
          done |-> FALSE]
    ELSE [curr |-> w.curr, path |-> <<w.curr>> \o w.path, done |-> TRUE]

RECURSIVE reconstructSteps(_, _, _)
reconstructSteps(w, k, parentMap) ==
    IF k = 0 \/ w.done THEN w
    ELSE IF k = 1 THEN reconstructStep(w, parentMap)
    ELSE reconstructSteps(reconstructSteps(w, k \div 2, parentMap),
                          k - (k \div 2), parentMap)

RECURSIVE reconstructLoop(_, _, _)
reconstructLoop(w, k, parentMap) ==
    IF w.done THEN w.path
    ELSE reconstructLoop(reconstructSteps(w, k, parentMap), 2 * k, parentMap)

\* the path from the parent pointers, walked back from endPos
reconstructPath(parentMap, endPos) ==
    reconstructLoop([curr |-> endPos, path |-> <<>>, done |-> FALSE], 1, parentMap)

\* one iteration of "while (queue.length > 0)" on
\* s = [queue, visited, parentMap, found, path]
bfsStep(s, mz, n, endPos) ==
    IF s.found \/ Len(s.queue) = 0 THEN s
    ELSE LET current == Head(s.queue)
             rest == [s EXCEPT !.queue = Tail(s.queue)]
         IN  IF current.x = endPos.x /\ current.y = endPos.y
             THEN [rest EXCEPT !.found = TRUE,
                               !.path = reconstructPath(s.parentMap, endPos)]
             ELSE enqueueNeighbors(pathNeighbors(mz, n, current.x, current.y),
                                   1, current, rest)

RECURSIVE bfsSteps(_, _, _, _, _)
bfsSteps(s, k, mz, n, endPos) ==
    IF k = 0 \/ s.found \/ Len(s.queue) = 0 THEN s
    ELSE IF k = 1 THEN bfsStep(s, mz, n, endPos)
    ELSE bfsSteps(bfsSteps(s, k \div 2, mz, n, endPos), k - (k \div 2), mz, n, endPos)

\* the search loop; the path is empty when the queue empties first
RECURSIVE bfsLoop(_, _, _, _, _)
bfsLoop(s, k, mz, n, endPos) ==
    IF s.found \/ Len(s.queue) = 0 THEN s.path
    ELSE bfsLoop(bfsSteps(s, k, mz, n, endPos), 2 * k, mz, n, endPos)

findShortestPath(mz, n, startPos, endPos) ==
    bfsLoop([queue |-> <<startPos>>, visited |-> {key(startPos)},
             parentMap |-> [k \in {} |-> startPos], found |-> FALSE, path |-> <<>>],
            1, mz, n, endPos)

\* ----------------------------------------------------------- generateStars
\* a swap that writes position i only and loses the element that was there
swapOverwrite(seq, i, j) == [seq EXCEPT ![i] = seq[j]]

\* [possiblePositions[i], possiblePositions[j]] = [.. [j], .. [i]] (1-based here)
swap(seq, i, j) == [seq EXCEPT ![i] = seq[j], ![j] = seq[i]]

\* one iteration of the shuffle loop on w = [seq, i] (i 0-based), j drawn
\* with the random value r
shuffleStep(w, r) ==
    IF w.i > 0
    THEN [seq |-> swap(w.seq, w.i + 1, randomIndex(r, w.i + 1) + 1), i |-> w.i - 1]
    ELSE w

RECURSIVE shuffleSteps(_, _, _)
shuffleSteps(w, k, r) ==
    IF k = 0 \/ w.i <= 0 THEN w
    ELSE IF k = 1 THEN shuffleStep(w, r)
    ELSE shuffleSteps(shuffleSteps(w, k \div 2, r), k - (k \div 2), r)

\* for (let i = length - 1; i > 0; i--)
shuffleLoop(seq, r) == shuffleSteps([seq |-> seq, i |-> Len(seq) - 1], Len(seq), r).seq

\* slice(0, k)
firstK(seq, k) == SubSeq(seq, 1, IF Len(seq) < k THEN Len(seq) ELSE k)

\* a generateStars that does not remove the start and the end of the path
generateStarsWholePath(mz, n, exitPos, r) ==
    LET path == findShortestPath(mz, n, Position(0, 0), exitPos)
    IN  IF Len(path) <= 2 THEN <<>>
        ELSE firstK(shuffleLoop(path, r), TOTAL_STARS)

generateStars(mz, n, exitPos, r) ==
    LET path == findShortestPath(mz, n, Position(0, 0), exitPos)
    IN  IF Len(path) <= 2 THEN <<>>
        ELSE LET possiblePositions == SubSeq(path, 2, Len(path) - 1)
             IN  firstK(shuffleLoop(possiblePositions, r),
                        TOTAL_STARS)

\* ----------------------------------------------------------- render position
\* A coordinate of playerRenderPos is the number base - num / 4^exp, held
\* exactly: the code's doubles are exact on every value reached here (a grid
\* coordinate below 32 minus 3^k / 4^k, k <= 17, needs 39 bits).
Whole(c) == [base |-> c, num |-> 0, exp |-> 0]

RECURSIVE Pow(_, _)
Pow(b, k) == IF k = 0 THEN 1 ELSE b * Pow(b, k - 1)

Abs(i) == IF i < 0 THEN -i ELSE i

\* p - c as the numerator over 4^(c.exp): rdx, rdy of update
remaining(p, c) ==
    IF p = c.base THEN c.num ELSE (p - c.base) * Pow(4, c.exp) + c.num

\* c + (p - c) * ANIMATION_SPEED, ANIMATION_SPEED = 0.25: p - 3 (p - c) / 4
approach(p, c) ==
    IF remaining(p, c) = 0 THEN Whole(p)
    ELSE [base |-> p, num |-> 3 * remaining(p, c), exp |-> c.exp + 1]

\* |num| / 4^exp < 0.01, computed without leaving 32 bits:
\* 25 |num| < 4^(exp-1) = a * a with a = 2^(exp-1)
belowEpsilon(num, exp) ==
    IF exp = 0 THEN num = 0
    ELSE LET a == Pow(2, exp - 1)
             q == Abs(num) \div a
             m == Abs(num) % a
         IN  25 * q + ((25 * m) \div a) < a

\* Math.sqrt(rdx*rdx + rdy*rdy) < 0.01. Every step is along one axis, so one
\* of the two is zero and the distance is the absolute value of the other.
distBelowEpsilon(p, render) ==
    LET rdx == remaining(p.x, render.x)
        rdy == remaining(p.y, render.y)
    IN  IF rdy = 0 THEN belowEpsilon(rdx, render.x.exp)
        ELSE IF rdx = 0 THEN belowEpsilon(rdy, render.y.exp)
        ELSE 10000 * (rdx * rdx * Pow(16, render.y.exp) + rdy * rdy * Pow(16, render.x.exp))
                < Pow(16, render.x.exp + render.y.exp)

\* ------------------------------------------------------------------ canMove
\* a canMove that does not look at the right wall
canMoveThroughRightWall(mz, pos, dir) ==
    IF ~(pos.y \in DOMAIN mz /\ pos.x \in DOMAIN mz[pos.y]) THEN FALSE
    ELSE LET cell == mz[pos.y][pos.x]
         IN  \/ dir.dx = 1
             \/ dir.dx = -1 /\ ~cell.left
             \/ dir.dy = 1 /\ ~cell.bottom
             \/ dir.dy = -1 /\ ~cell.top

\* a canMove that tests a horizontal move against the vertical walls and a
\* vertical move against the horizontal ones
canMoveSwappedAxes(mz, pos, dir) ==
    IF ~(pos.y \in DOMAIN mz /\ pos.x \in DOMAIN mz[pos.y]) THEN FALSE
    ELSE LET cell == mz[pos.y][pos.x]
         IN  \/ dir.dx = 1 /\ ~cell.bottom
             \/ dir.dx = -1 /\ ~cell.top
             \/ dir.dy = 1 /\ ~cell.right
             \/ dir.dy = -1 /\ ~cell.left

\* a canMove that reads the nearest cell of the grid for a position outside it
canMoveClamped(mz, pos, dir) ==
    LET n == Cardinality(DOMAIN mz)
        cx == IF pos.x < 0 THEN 0 ELSE IF pos.x > n - 1 THEN n - 1 ELSE pos.x
        cy == IF pos.y < 0 THEN 0 ELSE IF pos.y > n - 1 THEN n - 1 ELSE pos.y
        cell == mz[cy][cx]
    IN  \/ dir.dx = 1 /\ ~cell.right
        \/ dir.dx = -1 /\ ~cell.left
        \/ dir.dy = 1 /\ ~cell.bottom
        \/ dir.dy = -1 /\ ~cell.top

canMove(mz, pos, dir) ==
    IF ~(pos.y \in DOMAIN mz /\ pos.x \in DOMAIN mz[pos.y]) THEN FALSE
    ELSE LET cell == mz[pos.y][pos.x]
         IN  \/ dir.dx = 1 /\ ~cell.right
             \/ dir.dx = -1 /\ ~cell.left
             \/ dir.dy = 1 /\ ~cell.bottom
             \/ dir.dy = -1 /\ ~cell.top

\* --------------------------------------------------------------- setupLevel
\* a size table with each tier one level short
mazeSizeForShortTiers(lv) ==
    IF lv < 2 THEN 10 ELSE IF lv < 5 THEN 15 ELSE IF lv < 8 THEN 20 ELSE 25

mazeSizeFor(lv) ==
    IF lv <= 2 THEN 10 ELSE IF lv <= 5 THEN 15 ELSE IF lv <= 8 THEN 20 ELSE 25

LevelSizes == {mazeSizeFor(lv) : lv \in 1..MaxLevel}

SetupSizes == {mazeSizeFor(lv) : lv \in 1..MaxSetupLevel}

\* generateMaze and generateStars computed once for each grid size and each
\* random value
generatedMaze == [n \in SetupSizes |-> [r \in RandomValues |-> generateMaze(n, r)]]

generatedStars ==
    [n \in SetupSizes |-> [r \in RandomValues |->
        generateStars(generatedMaze[n][r], n, Position(n - 1, randomIndex(r, n)), r)]]

\* findShortestPath({ x: 0, y: 0 }, exit) of generateStars, computed once for
\* each generated maze
generatedPath ==
    [n \in LevelSizes |-> [r \in RandomValues |->
        findShortestPath(generatedMaze[n][r], n, Position(0, 0),
                         Position(n - 1, randomIndex(r, n)))]]

\* findShortestPath({ x: 0, y: 0 }, ex) on the maze mz: looked up when mz and
\* ex are those of a generated level, computed otherwise
solutionPath(mz, n, ex) ==
    LET known == {r \in RandomValues :
                    /\ n \in LevelSizes
                    /\ ex = Position(n - 1, randomIndex(r, n))
                    /\ mz = generatedMaze[n][r]}
    IN  IF known # {} THEN generatedPath[n][CHOOSE r \in known : TRUE]
        ELSE findShortestPath(mz, n, Position(0, 0), ex)

\* the fields setupLevel(newLevel) assigns in both variants; every
\* Math.random() of the call (generateMaze, the exit row, the shuffle)
\* returns r
setupLevel(newLevel, r) ==
    LET n == mazeSizeFor(newLevel)
    IN  [level |-> newLevel,
         gameState |-> "playing",
         isAnimating |-> FALSE,
         collectedStars |-> 0,
         mazeSize |-> n,
         player |-> Position(0, 0),
         playerRenderPos |-> [x |-> Whole(0), y |-> Whole(0)],
         exit |-> Position(n - 1, randomIndex(r, n)),
         maze |-> generatedMaze[n][r],
         stars |-> generatedStars[n][r]]

\* ---------------------------------------------------------- checkGameStatus
\* stars.findIndex(star => star.x === p.x && star.y === p.y), 1-based, 0 for -1
RECURSIVE findIndexFrom(_, _, _)
findIndexFrom(seq, p, i) ==
    IF i > Len(seq) THEN 0
    ELSE IF seq[i].x = p.x /\ seq[i].y = p.y THEN i
    ELSE findIndexFrom(seq, p, i + 1)

\* a splice that removes nothing
spliceNothing(seq, i) == seq

\* stars.splice(i, 1)
splice(seq, i) == SubSeq(seq, 1, i - 1) \o SubSeq(seq, i + 1, Len(seq))

\* a win test with the exit's coordinates swapped
reachedExitSwapped(v, p, ex, gs) ==
    IF v = "index" THEN p.x = ex.y /\ p.y = ex.x
    ELSE gs = "playing" /\ p.x = ex.y /\ p.y = ex.x

\* the win test of checkGameStatus: index.tsx tests the position alone,
\* part_000 also that the state is playing
reachedExit(v, p, ex, gs) ==
    IF v = "index" THEN p.x = ex.x /\ p.y = ex.y
    ELSE gs = "playing" /\ p.x = ex.x /\ p.y = ex.y

wonState(v) == IF v = "index" THEN "won" ELSE "celebrating"

\* checkGameStatus with the player at p: the star pickup, then the win test
\* (the state, the directions and the scheduled callback)
checkGameStatus(p) ==
    LET starIndex == findIndexFrom(stars, p, 1)
        win == reachedExit(variant, p, exit, gameState)
    IN  /\ stars' = IF starIndex > 0 THEN splice(stars, starIndex) ELSE stars
        /\ collectedStars' = IF starIndex > 0 THEN collectedStars + 1
                             ELSE collectedStars
        /\ gameState' = IF win THEN wonState(variant) ELSE gameState
        /\ timers' = IF win THEN timers + 1 ELSE timers
        /\ IF win /\ variant = "index"
           THEN currentDirection' = NoDirection /\ desiredDirection' = NoDirection
           ELSE TRUE

\* ------------------------------------------------------------------ history
pre(op) == [op |-> op, player |-> player, gameState |-> gameState,
            isAnimating |-> isAnimating, level |-> level,
            currentDirection |-> currentDirection]

\* ------------------------------------------------------------------- update
moved(p, dir) == Position(p.x + dir.dx, p.y + dir.dy)

\* an animation branch that clears the flag without the snap
animateClearWithoutSnap ==
    IF distBelowEpsilon(player, playerRenderPos)
    THEN /\ playerRenderPos' = playerRenderPos
         /\ isAnimating' = FALSE
    ELSE /\ playerRenderPos' = [x |-> approach(player.x, playerRenderPos.x),
                                y |-> approach(player.y, playerRenderPos.y)]
         /\ isAnimating' = isAnimating

\* the animation branch of update: snap below epsilon, else close a quarter
\* of the remaining vector
animate ==
    IF distBelowEpsilon(player, playerRenderPos)
    THEN /\ playerRenderPos' = [x |-> Whole(player.x), y |-> Whole(player.y)]
         /\ isAnimating' = FALSE
    ELSE /\ playerRenderPos' = [x |-> approach(player.x, playerRenderPos.x),
                                y |-> approach(player.y, playerRenderPos.y)]
         /\ isAnimating' = isAnimating

\* a direction choice that keeps going forward while the way is open
chosenDirectionForwardFirst ==
    IF currentDirection # NoDirection /\ canMove(maze, player, currentDirection)
    THEN currentDirection
    ELSE desiredDirection

\* the direction update() of index.tsx tries: the desired direction when it is
\* non-zero and passable or the exact opposite of the current one
chosenDirection ==
    LET isOpposite == /\ desiredDirection.dx = -currentDirection.dx
                      /\ desiredDirection.dy = -currentDirection.dy
    IN  IF /\ (desiredDirection.dx # 0 \/ desiredDirection.dy # 0)
           /\ (canMove(maze, player, desiredDirection) \/ isOpposite)
        THEN desiredDirection
        ELSE currentDirection

\* a step that leaves the direction alone at a wall
stepIndexNoReset ==
    IF gameState = "playing"
    THEN IF canMove(maze, player, chosenDirection)
         THEN /\ player' = moved(player, chosenDirection)
              /\ isAnimating' = TRUE
              /\ checkGameStatus(player')
              /\ IF reachedExit(variant, player', exit, gameState) THEN TRUE
                 ELSE /\ currentDirection' = chosenDirection
                      /\ UNCHANGED desiredDirection
              /\ UNCHANGED playerRenderPos
         ELSE UNCHANGED <<player, playerRenderPos, isAnimating, stars,
                          collectedStars, gameState, timers, currentDirection,
                          desiredDirection>>
    ELSE UNCHANGED <<player, playerRenderPos, isAnimating, stars, collectedStars,
                     gameState, timers, currentDirection, desiredDirection>>

\* the part of update() of index.tsx after the animation branch: in state
\* playing, the direction change and the attempted step
stepIndex ==
    IF gameState = "playing"
    THEN IF canMove(maze, player, chosenDirection)
         THEN /\ player' = moved(player, chosenDirection)
              /\ isAnimating' = TRUE
              /\ checkGameStatus(player')
              /\ IF reachedExit(variant, player', exit, gameState) THEN TRUE
                 ELSE /\ currentDirection' = chosenDirection
                      /\ UNCHANGED desiredDirection
              /\ UNCHANGED playerRenderPos
         ELSE /\ currentDirection' = NoDirection
              /\ UNCHANGED <<player, playerRenderPos, isAnimating, stars,
                             collectedStars, gameState, timers, desiredDirection>>
    ELSE UNCHANGED <<player, playerRenderPos, isAnimating, stars, collectedStars,
                     gameState, timers, currentDirection, desiredDirection>>

\* an update() that does not return from the animation branch
updateIndexNoReturn == stepIndex

\* update() of index.tsx
updateIndex ==
    IF isAnimating
    THEN /\ animate
         /\ UNCHANGED <<player, stars, collectedStars, gameState, timers,
                        currentDirection, desiredDirection>>
    ELSE stepIndex

\* moveDir of part_000's update: the first held flag in the order up, down,
\* left, right
moveDir ==
    IF keysDown.up THEN [dx |-> 0, dy |-> -1]
    ELSE IF keysDown.down THEN [dx |-> 0, dy |-> 1]
    ELSE IF keysDown.left THEN [dx |-> -1, dy |-> 0]
    ELSE IF keysDown.right THEN [dx |-> 1, dy |-> 0]
    ELSE NoDirection

\* update() of part_000
updatePart ==
    IF gameState # "playing"
    THEN UNCHANGED <<player, playerRenderPos, isAnimating, stars, collectedStars,
                     gameState, timers>>
    ELSE IF isAnimating
    THEN /\ animate
         /\ IF distBelowEpsilon(player, playerRenderPos)
            THEN checkGameStatus(player)
            ELSE UNCHANGED <<stars, collectedStars, gameState, timers>>
         /\ UNCHANGED player
    ELSE IF (moveDir.dx # 0 \/ moveDir.dy # 0) /\ canMove(maze, player, moveDir)
    THEN /\ player' = moved(player, moveDir)
         /\ isAnimating' = TRUE
         /\ checkGameStatus(player')
         /\ UNCHANGED playerRenderPos
    ELSE UNCHANGED <<player, playerRenderPos, isAnimating, stars, collectedStars,
                     gameState, timers>>

\* the number of calls of checkGameStatus that update() makes when it runs in
\* the current state: index.tsx calls it where it takes a step, part_000
\* where it takes a step and where the animation snaps
checkGameStatusCalls ==
    IF variant = "index"
    THEN IF /\ ~isAnimating
            /\ gameState = "playing"
            /\ canMove(maze, player, chosenDirection)
         THEN 1 ELSE 0
    ELSE IF gameState # "playing" THEN 0
    ELSE IF isAnimating
    THEN IF distBelowEpsilon(player, playerRenderPos) THEN 1 ELSE 0
    ELSE IF (moveDir.dx # 0 \/ moveDir.dy # 0) /\ canMove(maze, player, moveDir)
    THEN 1 ELSE 0

\* one frame: gameLoop's call of update
Tick ==
    /\ IF variant = "index"
       THEN updateIndex /\ UNCHANGED keysDown
       ELSE updatePart /\ UNCHANGED <<keysDown, currentDirection, desiredDirection>>
    /\ last' = pre("tick")
    /\ setupCalls' = 0
    /\ UNCHANGED <<variant, level, maze, mazeSize, exit, stack, iterations, held>>

\* ------------------------------------------------------------------- inputs
\* setDirection(dx, dy) of index.tsx, called by the key and button listeners
SetDirection(dir) ==
    /\ variant = "index"
    /\ desiredDirection' = IF gameState # "playing" THEN desiredDirection ELSE dir
    /\ setupCalls' = 0
    /\ UNCHANGED last
    /\ UNCHANGED <<variant, level, maze, mazeSize, player, playerRenderPos, exit,
                   stars, collectedStars, gameState, isAnimating,
                   currentDirection, keysDown, timers, stack,
                   iterations, held>>

KeyNames == {"up", "down", "left", "right"}

\* the keydown listener of part_000 (handleKeyDown behind the state test)
keydown(k) ==
    IF gameState = "playing" THEN [keysDown EXCEPT ![k] = TRUE] ELSE keysDown

\* the keyup listener of part_000 (handleKeyUp behind the state test)
keyup(k) ==
    IF gameState = "playing" THEN [keysDown EXCEPT ![k] = FALSE] ELSE keysDown

\* the pointerdown listener of a direction button of part_000
pointerdown(k) == [keysDown EXCEPT ![k] = TRUE]

\* the pointerup and the pointerleave listeners of a direction button
pointerup(k) == [keysDown EXCEPT ![k] = FALSE]

\* a keydown event
KeyDown(k) ==
    /\ variant = "part"
    /\ keysDown' = keydown(k)
    /\ setupCalls' = 0
    /\ UNCHANGED last
    /\ UNCHANGED <<variant, level, maze, mazeSize, player, playerRenderPos, exit,
                   stars, collectedStars, gameState, isAnimating,
                   currentDirection, desiredDirection, timers, stack,
                   iterations, held>>

\* a keyup event
KeyUp(k) ==
    /\ variant = "part"
    /\ keysDown' = keyup(k)
    /\ setupCalls' = 0
    /\ UNCHANGED last
    /\ UNCHANGED <<variant, level, maze, mazeSize, player, playerRenderPos, exit,
                   stars, collectedStars, gameState, isAnimating,
                   currentDirection, desiredDirection, timers, stack,
                   iterations, held>>

\* a pointerdown event on a direction button
PointerDown(k) ==
    /\ variant = "part"
    /\ keysDown' = pointerdown(k)
    /\ setupCalls' = 0
    /\ UNCHANGED last
    /\ UNCHANGED <<variant, level, maze, mazeSize, player, playerRenderPos, exit,
                   stars, collectedStars, gameState, isAnimating,
                   currentDirection, desiredDirection, timers, stack,
                   iterations, held>>

\* a pointerup or pointerleave event on a direction button
PointerUp(k) ==
    /\ variant = "part"
    /\ keysDown' = pointerup(k)
    /\ setupCalls' = 0
    /\ UNCHANGED last
    /\ UNCHANGED <<variant, level, maze, mazeSize, player, playerRenderPos, exit,
                   stars, collectedStars, gameState, isAnimating,
                   currentDirection, desiredDirection, timers, stack,
                   iterations, held>>

\* ------------------------------------------- keys and buttons held and let go
Devices == {"key", "button"}

Held(d, k) == [device |-> d, key |-> k]

\* a key or a button goes down: the device's listener runs
Press(d, k) ==
    /\ variant = "part"
    /\ Held(d, k) \notin held
    /\ Cardinality(held) < MaxHeld
    /\ held' = held \cup {Held(d, k)}
    /\ keysDown' = IF d = "key" THEN keydown(k) ELSE pointerdown(k)
    /\ setupCalls' = 0
    /\ UNCHANGED last
    /\ UNCHANGED <<variant, level, maze, mazeSize, player, playerRenderPos, exit,
                   stars, collectedStars, gameState, isAnimating,
                   currentDirection, desiredDirection, timers, stack,
                   iterations>>

\* a held key or button is let go: the device's listener runs
Release(d, k) ==
    /\ variant = "part"
    /\ Held(d, k) \in held
    /\ held' = held \ {Held(d, k)}
    /\ keysDown' = IF d = "key" THEN keyup(k) ELSE pointerup(k)
    /\ setupCalls' = 0
    /\ UNCHANGED last
    /\ UNCHANGED <<variant, level, maze, mazeSize, player, playerRenderPos, exit,
                   stars, collectedStars, gameState, isAnimating,
                   currentDirection, desiredDirection, timers, stack,
                   iterations>>

\* ----------------------------------------------------- resize, level advance
\* the assignments of setupLevel(newLevel) as an action
SetupLevel(newLevel, r) ==
    LET s == setupLevel(newLevel, r)
    IN  /\ level' = s.level
        /\ gameState' = s.gameState
        /\ isAnimating' = s.isAnimating
        /\ collectedStars' = s.collectedStars
        /\ mazeSize' = s.mazeSize
        /\ player' = s.player
        /\ playerRenderPos' = s.playerRenderPos
        /\ exit' = s.exit
        /\ maze' = s.maze
        /\ stars' = s.stars
        /\ IF variant = "index"
           THEN currentDirection' = NoDirection /\ desiredDirection' = NoDirection
           ELSE UNCHANGED <<currentDirection, desiredDirection>>
        /\ setupCalls' = IF setupCalls = 0 THEN 1 ELSE 2
        /\ UNCHANGED <<variant, keysDown, stack, iterations, held>>

\* a resize listener without the state test
ResizeInAnyState ==
    /\ \E r \in RandomValues : SetupLevel(level, r)
    /\ timers' = timers
    /\ last' = pre("resize")

\* a resize listener that sets up the next level
ResizeNextLevel ==
    /\ IF gameState = "playing" \/ gameState = "start"
       THEN \E r \in RandomValues :
                SetupLevel(IF level < MaxLevel THEN level + 1 ELSE level, r)
       ELSE /\ setupCalls' = 0
            /\ UNCHANGED <<variant, level, maze, mazeSize, player, playerRenderPos,
                           exit, stars, collectedStars, gameState, isAnimating,
                           currentDirection, desiredDirection, keysDown, stack,
                           iterations, held>>
    /\ timers' = timers
    /\ last' = pre("resize")

\* the resize listener
Resize ==
    /\ IF gameState = "playing" \/ gameState = "start"
       THEN \E r \in RandomValues : SetupLevel(level, r)
       ELSE /\ setupCalls' = 0
            /\ UNCHANGED <<variant, level, maze, mazeSize, player, playerRenderPos,
                           exit, stars, collectedStars, gameState, isAnimating,
                           currentDirection, desiredDirection, keysDown, stack,
                           iterations, held>>
    /\ timers' = timers
    /\ last' = pre("resize")

\* a callback that sets up the current level again
LevelAdvanceSameLevel ==
    /\ timers > 0
    /\ level < MaxLevel
    /\ timers' = timers - 1
    /\ IF variant = "index" \/ gameState = "celebrating"
       THEN \E r \in RandomValues : SetupLevel(level, r)
       ELSE /\ setupCalls' = 0
            /\ UNCHANGED <<variant, level, maze, mazeSize, player, playerRenderPos,
                           exit, stars, collectedStars, gameState, isAnimating,
                           currentDirection, desiredDirection, keysDown, stack,
                           iterations, held>>
    /\ last' = pre("levelAdvance")

\* the setTimeout callback of checkGameStatus: index.tsx calls
\* setupLevel(level + 1); part_000 does so only in state celebrating
LevelAdvance ==
    /\ timers > 0
    /\ level < MaxLevel
    /\ timers' = timers - 1
    /\ IF variant = "index" \/ gameState = "celebrating"
       THEN \E r \in RandomValues : SetupLevel(level + 1, r)
       ELSE /\ setupCalls' = 0
            /\ UNCHANGED <<variant, level, maze, mazeSize, player, playerRenderPos,
                           exit, stars, collectedStars, gameState, isAnimating,
                           currentDirection, desiredDirection, keysDown, stack,
                           iterations, held>>
    /\ last' = pre("levelAdvance")

\* -------------------------------------------------------------- the program
\* module load: the declarations, then setupLevel(1)
Init ==
    /\ variant \in {"index", "part"}
    /\ \E r \in RandomValues :
        LET s == setupLevel(1, r)
        IN  /\ level = s.level
            /\ gameState = s.gameState
            /\ isAnimating = s.isAnimating
            /\ collectedStars = s.collectedStars
            /\ mazeSize = s.mazeSize
            /\ player = s.player
            /\ playerRenderPos = s.playerRenderPos
            /\ exit = s.exit
            /\ maze = s.maze
            /\ stars = s.stars
    /\ currentDirection = NoDirection
    /\ desiredDirection = NoDirection
    /\ keysDown = [up |-> FALSE, down |-> FALSE, left |-> FALSE, right |-> FALSE]
    /\ timers = 0
    /\ stack = <<>>
    /\ iterations = 0
    /\ held = {}
    /\ setupCalls = 1
    /\ last = [op |-> "setupLevel", player |-> Position(0, 0),
               gameState |-> "start", isAnimating |-> FALSE, level |-> 1,
               currentDirection |-> NoDirection]

Next ==
    \/ Tick
    \/ \E dir \in Directions : SetDirection(dir)
    \/ \E k \in KeyNames : KeyDown(k)
    \/ \E k \in KeyNames : KeyUp(k)
    \/ \E k \in KeyNames : PointerDown(k)
    \/ \E k \in KeyNames : PointerUp(k)
    \/ Resize
    \/ LevelAdvance

Spec == Init /\ [][Next]_vars

\* the browser runs a pending setTimeout callback
FairSpec == Spec /\ WF_vars(LevelAdvance)

\* part_000 with the keys and buttons that are held down tracked
InitKeys == Init /\ variant = "part"

NextKeys ==
    \/ Tick
    \/ \E d \in Devices, k \in KeyNames : Press(d, k)
    \/ \E d \in Devices, k \in KeyNames : Release(d, k)
    \/ Resize
    \/ LevelAdvance

SpecKeys == InitKeys /\ [][NextKeys]_vars

\* index.tsx alone, with requestAnimationFrame calling gameLoop again and
\* again
InitIndex == Init /\ variant = "index"

NextIndex ==
    \/ Tick
    \/ \E dir \in Directions : SetDirection(dir)
    \/ Resize
    \/ LevelAdvance

FairSpecIndex == InitIndex /\ [][NextIndex]_vars /\ WF_vars(Tick)

\* ------------------------------------------------- setupLevel, level by level
\* setupLevel(n) called for a level n of 1..MaxSetupLevel
InitSetup ==
    /\ variant \in {"index", "part"}
    /\ \E n \in 1..MaxSetupLevel, r \in RandomValues :
        LET s == setupLevel(n, r)
        IN  /\ level = s.level
            /\ gameState = s.gameState
            /\ isAnimating = s.isAnimating
            /\ collectedStars = s.collectedStars
            /\ mazeSize = s.mazeSize
            /\ player = s.player
            /\ playerRenderPos = s.playerRenderPos
            /\ exit = s.exit
            /\ maze = s.maze
            /\ stars = s.stars
            /\ last = [op |-> "setupLevel", player |-> Position(0, 0),
                       gameState |-> "start", isAnimating |-> FALSE, level |-> n,
               currentDirection |-> NoDirection]
    /\ currentDirection = NoDirection
    /\ desiredDirection = NoDirection
    /\ keysDown = [up |-> FALSE, down |-> FALSE, left |-> FALSE, right |-> FALSE]
    /\ timers = 0
    /\ stack = <<>>
    /\ iterations = 0
    /\ held = {}
    /\ setupCalls = 1

\* the listeners that run between two setups while the player stands still
NextSetup ==
    \/ \E dir \in Directions : SetDirection(dir)
    \/ \E k \in KeyNames : KeyDown(k)
    \/ \E k \in KeyNames : KeyUp(k)
    \/ \E k \in KeyNames : PointerDown(k)
    \/ \E k \in KeyNames : PointerUp(k)
    \/ Resize

SpecSetup == InitSetup /\ [][NextSetup]_vars

\* ------------------------------------------- generateMaze, one step at a time
\* generateMaze entered with the grid side mazeSize: the fresh grid, the start
\* cell visited and pushed
InitMaze ==
    /\ variant = "index"
    /\ level = 1
    /\ mazeSize \in 1..MaxSize
    /\ maze = initialMaze(mazeSize)
    /\ stack = <<Position(0, 0)>>
    /\ iterations = 0
    /\ held = {}
    /\ player = Position(0, 0)
    /\ playerRenderPos = [x |-> Whole(0), y |-> Whole(0)]
    /\ exit = Position(mazeSize - 1, 0)
    /\ stars = <<>>
    /\ collectedStars = 0
    /\ gameState = "playing"
    /\ isAnimating = FALSE
    /\ currentDirection = NoDirection
    /\ desiredDirection = NoDirection
    /\ keysDown = [up |-> FALSE, down |-> FALSE, left |-> FALSE, right |-> FALSE]
    /\ timers = 0
    /\ setupCalls = 0
    /\ last = [op |-> "generateMaze", player |-> Position(0, 0),
               gameState |-> "playing", isAnimating |-> FALSE, level |-> 1,
               currentDirection |-> NoDirection]

\* an iteration that finds unvisited neighbours: any of them may be drawn
Carve ==
    /\ Len(stack) > 0
    /\ Len(neighborsOf(maze, mazeSize, stack[Len(stack)])) > 0
    /\ \E idx \in 0..(Len(neighborsOf(maze, mazeSize, stack[Len(stack)])) - 1) :
        LET s == mazeLoopBody([maze |-> maze, stack |-> stack], mazeSize, idx)
        IN  maze' = s.maze /\ stack' = s.stack
    /\ iterations' = iterations + 1
    /\ last' = pre("carve")
    /\ UNCHANGED <<variant, level, mazeSize, player, playerRenderPos, exit, stars,
                   collectedStars, gameState, isAnimating, currentDirection,
                   desiredDirection, keysDown, timers, setupCalls, held>>

\* an iteration without neighbours that leaves the stack as it is
BacktrackWithoutPop ==
    /\ Len(stack) > 0
    /\ Len(neighborsOf(maze, mazeSize, stack[Len(stack)])) = 0
    /\ iterations' = iterations + 1
    /\ last' = pre("backtrack")
    /\ UNCHANGED <<variant, level, maze, mazeSize, stack, player, playerRenderPos,
                   exit, stars, collectedStars, gameState, isAnimating,
                   currentDirection, desiredDirection, keysDown, timers,
                   setupCalls, held>>

\* an iteration that finds none: pop
Backtrack ==
    /\ Len(stack) > 0
    /\ Len(neighborsOf(maze, mazeSize, stack[Len(stack)])) = 0
    /\ LET s == mazeLoopBody([maze |-> maze, stack |-> stack], mazeSize, 0)
       IN  maze' = s.maze /\ stack' = s.stack
    /\ iterations' = iterations + 1
    /\ last' = pre("backtrack")
    /\ UNCHANGED <<variant, level, mazeSize, player, playerRenderPos, exit, stars,
                   collectedStars, gameState, isAnimating, currentDirection,
                   desiredDirection, keysDown, timers, setupCalls, held>>

NextMaze == Carve \/ Backtrack

SpecMaze == InitMaze /\ [][NextMaze]_vars

\* the loop runs on while its test holds
FairSpecMaze == SpecMaze /\ WF_vars(NextMaze)

\* ------------------------------------------------- the passable-adjacency graph
GridAdjacent(a, b) ==
    \/ a.x = b.x /\ (a.y = b.y + 1 \/ b.y = a.y + 1)
    \/ a.y = b.y /\ (a.x = b.x + 1 \/ b.x = a.x + 1)

\* the wall flag the cell a holds toward its grid neighbour b
FlagToward(mz, a, b) ==
    IF b.x = a.x + 1 THEN mz[a.y][a.x].right
    ELSE IF b.x = a.x - 1 THEN mz[a.y][a.x].left
    ELSE IF b.y = a.y + 1 THEN mz[a.y][a.x].bottom
    ELSE mz[a.y][a.x].top

\* the shared wall of two grid-adjacent cells is open
OpenBetween(mz, a, b) ==
    GridAdjacent(a, b) /\ ~FlagToward(mz, a, b) /\ ~FlagToward(mz, b, a)

\* one pair per open wall: the cell and its right or bottom neighbour
Edges(mz, n) ==
    {e \in Cells(n) \X Cells(n) :
        /\ e[2] = Position(e[1].x + 1, e[1].y) \/ e[2] = Position(e[1].x, e[1].y + 1)
        /\ OpenBetween(mz, e[1], e[2])}

\* the cells reachable from the cells of seen over open walls
RECURSIVE ReachableFrom(_, _, _)
ReachableFrom(mz, n, seen) ==
    LET more == {b \in Cells(n) \ seen : \E a \in seen : OpenBetween(mz, a, b)}
    IN  IF more = {} THEN seen ELSE ReachableFrom(mz, n, seen \cup more)

Connected(mz, n) == ReachableFrom(mz, n, {Position(0, 0)}) = Cells(n)

\* the number of wall openings between b and the set of cells at d openings
\* from a: the distance in the graph, -1 when b is not reachable
RECURSIVE DistanceFrom(_, _, _, _, _, _)
DistanceFrom(mz, n, frontier, seen, b, d) ==
    IF b \in frontier THEN d
    ELSE IF frontier = {} THEN -1
    ELSE LET more == {c \in Cells(n) \ seen : \E a \in frontier : OpenBetween(mz, a, c)}
         IN  DistanceFrom(mz, n, more, seen \cup more, b, d + 1)

Distance(mz, n, a, b) == DistanceFrom(mz, n, {a}, {a}, b, 0)

\* ------------------------------------------------------------------- claims
\* C1: when generateMaze finishes, the passable-adjacency graph is connected
\* and has exactly n*n - 1 edges (a spanning tree), for every grid size up to
\* MaxSize and every sequence of neighbour choices.
PerfectMaze ==
    Len(stack) = 0 =>
        /\ Connected(maze, mazeSize)
        /\ Cardinality(Edges(maze, mazeSize)) = mazeSize * mazeSize - 1

PerfectMazeWitness ==
    /\ Len(stack) = 0
    /\ last.op = "backtrack"
    /\ mazeSize = 3
    /\ Cardinality(Edges(maze, mazeSize)) = 8

\* C2: after every carving step and at completion, each pair of grid-adjacent
\* cells holds equal wall flags toward each other.
WallConsistency ==
    \A a \in Cells(mazeSize), b \in Cells(mazeSize) :
        GridAdjacent(a, b) => FlagToward(maze, a, b) = FlagToward(maze, b, a)

WallConsistencyWitness ==
    /\ last.op = "carve"
    /\ Len(stack) > 2
    /\ \E a \in Cells(mazeSize), b \in Cells(mazeSize) : OpenBetween(maze, a, b)

\* the sequence p is a walk from a to b over open walls that repeats no cell
IsSimpleWalk(mz, p, a, b) ==
    /\ Len(p) >= 1
    /\ p[1] = a
    /\ p[Len(p)] = b
    /\ \A i \in 1..(Len(p) - 1) : OpenBetween(mz, p[i], p[i + 1])
    /\ \A i \in 1..Len(p), j \in 1..Len(p) : p[i] = p[j] => i = j

\* C3: on every generated maze and for every pair of cells, findShortestPath
\* returns a walk from start to end over open walls that repeats no cell and
\* has the length of the tree path (one cell when start = end).
ShortestPathCorrect ==
    Len(stack) = 0 =>
        \A a \in Cells(mazeSize), b \in Cells(mazeSize) :
            LET p == findShortestPath(maze, mazeSize, a, b)
            IN  /\ IsSimpleWalk(maze, p, a, b)
                /\ Len(p) = Distance(maze, mazeSize, a, b) + 1

ShortestPathCorrectWitness ==
    /\ Len(stack) = 0
    /\ mazeSize = 3
    /\ Len(findShortestPath(maze, mazeSize, Position(0, 0), Position(2, 0))) = 9
    /\ Len(findShortestPath(maze, mazeSize, Position(1, 1), Position(1, 1))) = 1

WonStates == {"won", "celebrating"}

\* C4: the player's logical position is always a cell of the grid, and every
\* change of it made by a tick leads to a grid-adjacent cell over an open wall
\* of the current maze.
LegalSteps ==
    /\ player \in Cells(mazeSize)
    /\ (last.op = "tick" /\ player # last.player) =>
            OpenBetween(maze, last.player, player)

LegalStepsWitness ==
    /\ last.op = "tick"
    /\ player.y = last.player.y + 1
    /\ collectedStars > 0
    /\ level = 2

\* C5: a tick that begins with isAnimating true never changes the logical
\* position; a tick changes it only when it begins with isAnimating false in
\* state playing.
SingleStep ==
    last.op = "tick" =>
        /\ last.isAnimating => player = last.player
        /\ player # last.player => ~last.isAnimating /\ last.gameState = "playing"

SingleStepWitness ==
    /\ last.op = "tick"
    /\ last.isAnimating
    /\ isAnimating
    /\ variant = "index"
    /\ canMove(maze, player, desiredDirection)
    /\ desiredDirection # currentDirection
    /\ player = last.player

\* C6: the state is playing only away from the exit cell; the tick that moves
\* the player onto the exit sets the won / celebrating state of the variant
\* and schedules the level advance in that same tick.
WinOnExit ==
    /\ gameState = "playing" => player # exit
    /\ (last.op = "tick" /\ player # last.player /\ player = exit) =>
            gameState = wonState(variant) /\ timers >= 1

WinOnExitWitness ==
    /\ last.op = "tick"
    /\ player # last.player
    /\ player = exit
    /\ variant = "part"
    /\ gameState = "celebrating"

\* C7: in state won / celebrating nothing but the level-advance callback
\* changes the logical position, the maze, the exit, the stars, collectedStars
\* or the level, and nothing else leaves the state.
WonIsFrozen ==
    [][(gameState \in WonStates /\ ~LevelAdvance) =>
            UNCHANGED <<player, maze, exit, stars, collectedStars, level, gameState>>]_vars

WonIsFrozenWitness ==
    /\ gameState \in WonStates
    /\ last.gameState \in WonStates
    /\ last.op = "resize"
    /\ collectedStars = TOTAL_STARS

\* C8: a callback is pending exactly in state won / celebrating, and never
\* more than one; the callback replaces a won level L by the freshly set up
\* level L + 1 in state playing; and, the callback being run eventually, every
\* win at a level below MaxLevel leads to playing at the next level.
AdvanceOnce ==
    /\ [](timers = IF gameState \in WonStates THEN 1 ELSE 0)
    /\ [][LevelAdvance =>
            /\ gameState \in WonStates
            /\ level' = level + 1
            /\ gameState' = "playing"
            /\ timers' = 0
            /\ player' = Position(0, 0)
            /\ ~isAnimating'
            /\ collectedStars' = 0
            /\ mazeSize' = mazeSizeFor(level + 1)]_vars
    /\ \A lv \in 1..(MaxLevel - 1) :
            (gameState \in WonStates /\ level = lv)
                ~> (gameState = "playing" /\ level = lv + 1)

AdvanceOnceWitness ==
    /\ last.op = "levelAdvance"
    /\ last.gameState \in WonStates
    /\ gameState = "playing"
    /\ level = last.level + 1

\* C10: a movement intent delivered outside state playing (setDirection in
\* index.tsx, a key-down or a button pointer-down in part_000) changes no
\* movement-intent state.
IntentIgnoredUnlessPlaying ==
    [][(/\ gameState # "playing"
        /\ \/ \E dir \in Directions : SetDirection(dir)
           \/ \E k \in KeyNames : KeyDown(k)
           \/ \E k \in KeyNames : PointerDown(k))
        => UNCHANGED <<desiredDirection, keysDown>>]_vars

Min(a, b) == IF a < b THEN a ELSE b

Max(a, b) == IF a > b THEN a ELSE b

\* C11: in every reachable state each remaining star is an interior cell of
\* the shortest path from (0,0) to the current exit in the current maze, no
\* star is on (0,0) or on the exit, and there are at most
\* min(TOTAL_STARS, interior length) of them.
StarsOnSolutionPath ==
    LET p == solutionPath(maze, mazeSize, exit)
        interior == {p[j] : j \in 2..(Len(p) - 1)}
    IN  /\ \A i \in 1..Len(stars) :
            /\ stars[i] \in interior
            /\ stars[i] # Position(0, 0)
            /\ stars[i] # exit
        /\ Len(stars) <= Min(TOTAL_STARS, Cardinality(interior))

StarsOnSolutionPathWitness ==
    /\ last.op = "tick"
    /\ player # last.player
    /\ collectedStars = 1
    /\ Len(stars) = TOTAL_STARS - 1
    /\ level = 2

\* the values of Math.random() in tenths, 0.0 to 0.9
Tenths == 0..9

\* C12: on every grid the generator passes through (finished or not, the exit
\* reachable or not), for every exit row and every shuffle drawn with a value
\* of Tenths, generateStars returns min(TOTAL_STARS, max(0, pathLength - 2))
\* pairwise-distinct stars, none when the path is empty or has at most 2 cells
\* (generateStars returns before the shuffle then, so one value is tried).
StarCount ==
    \A ey \in 0..(mazeSize - 1) :
        LET ex == Position(mazeSize - 1, ey)
            p == findShortestPath(maze, mazeSize, Position(0, 0), ex)
        IN  \A r \in (IF Len(p) <= 2 THEN {0} ELSE Tenths) :
                LET s == generateStars(maze, mazeSize, ex, r)
                IN  /\ Len(s) = Min(TOTAL_STARS, Max(0, Len(p) - 2))
                    /\ \A i \in 1..Len(s), j \in 1..Len(s) : s[i] = s[j] => i = j
                    /\ Len(p) <= 2 => s = <<>>

StarCountWitness ==
    /\ Len(stack) > 0
    /\ mazeSize = 3
    /\ findShortestPath(maze, mazeSize, Position(0, 0), Position(2, 2)) = <<>>
    /\ generateStars(maze, mazeSize, Position(2, 2), 5) = <<>>
    /\ Len(findShortestPath(maze, mazeSize, Position(0, 0), Position(2, 0))) = 3
    /\ generateStars(maze, mazeSize, Position(2, 0), 5) = <<Position(1, 0)>>

\* C13: on every finished maze, for every cell p and every unit direction dir,
\* canMove(p, dir) is true exactly when p's wall flag on the side of dir is
\* false and the cell p + dir is inside the grid; canMove(p, (0,0)) is false.
CanMoveIffOpen ==
    Len(stack) = 0 =>
        /\ \A p \in Cells(mazeSize), dir \in Directions :
                canMove(maze, p, dir) <=>
                    /\ ~FlagToward(maze, p, moved(p, dir))
                    /\ moved(p, dir) \in Cells(mazeSize)
        /\ \A p \in Cells(mazeSize) : ~canMove(maze, p, NoDirection)

CanMoveIffOpenWitness ==
    /\ Len(stack) = 0
    /\ mazeSize = 3
    /\ canMove(maze, Position(0, 0), [dx |-> 1, dy |-> 0])
    /\ ~canMove(maze, Position(0, 0), [dx |-> 0, dy |-> 1])
    /\ ~canMove(maze, Position(2, 2), [dx |-> 1, dy |-> 0])
    /\ canMove(maze, Position(2, 2), [dx |-> 0, dy |-> -1])

\* the positions one cell outside the grid of side n, corners included
OutsideGrid(n) ==
    {Position(x, y) : x \in (-1)..n, y \in (-1)..n} \ Cells(n)

\* C14: for every position outside the grid and every direction (the zero
\* direction included), on every grid the generator passes through, canMove
\* returns false.
CanMoveOutsideBlocked ==
    \A p \in OutsideGrid(mazeSize), dir \in Directions \cup {NoDirection} :
        ~canMove(maze, p, dir)

CanMoveOutsideBlockedWitness ==
    /\ Len(stack) = 0
    /\ mazeSize = 3
    /\ canMove(maze, Position(2, 2), [dx |-> -1, dy |-> 0])
    /\ ~canMove(maze, Position(3, 2), [dx |-> -1, dy |-> 0])
    /\ canMove(maze, Position(0, 0), [dx |-> 0, dy |-> 1])
    /\ ~canMove(maze, Position(0, -1), [dx |-> 0, dy |-> 1])

\* C15: a tick calls checkGameStatus exactly when it snaps the render position
\* and clears isAnimating, and then once; the tick that starts a step does not
\* call it.
CheckOnSnapOnly ==
    [][Tick => checkGameStatusCalls = IF isAnimating /\ ~isAnimating' THEN 1 ELSE 0]_vars

\* the number of animation ticks since the step began: each of them raises
\* the exponent of the moving coordinate by one
ticksAnimated == Max(playerRenderPos.x.exp, playerRenderPos.y.exp)

\* the coordinate d is nearer to p than c is, d being c after one tick
nearer(p, c, d) ==
    /\ remaining(p, c) # 0
    /\ \/ remaining(p, d) = 0
       \/ d.exp = c.exp + 1 /\ Abs(remaining(p, d)) < 4 * Abs(remaining(p, c))

\* the coordinate d is not beyond p as seen from c
notBeyond(p, c, d) ==
    \/ remaining(p, d) = 0
    \/ remaining(p, d) > 0 /\ remaining(p, c) > 0
    \/ remaining(p, d) < 0 /\ remaining(p, c) < 0

\* C16: 17 ticks after the tick that started a step the render position is
\* the logical position and isAnimating is false; each tick of the animation
\* brings the render position strictly nearer to the logical position without
\* passing it.
ConvergesIn17Ticks ==
    /\ [](isAnimating => ticksAnimated < 17)
    /\ [][(Tick /\ isAnimating) =>
            /\ \/ nearer(player.x, playerRenderPos.x, playerRenderPos'.x)
               \/ nearer(player.y, playerRenderPos.y, playerRenderPos'.y)
            /\ notBeyond(player.x, playerRenderPos.x, playerRenderPos'.x)
            /\ notBeyond(player.y, playerRenderPos.y, playerRenderPos'.y)]_vars

\* the render coordinate r lies between the coordinates cv (of the previous
\* cell) and pv (of the logical cell), which are equal or one apart; a
\* numerator below 2^31 over 4^16 or more is below one
betweenCoordinates(cv, pv, r) ==
    LET rem == remaining(pv, r)
    IN  IF cv = pv THEN rem = 0
        ELSE /\ rem * (pv - cv) >= 0
             /\ r.exp >= 16 \/ Abs(rem) <= Pow(4, r.exp)

\* C17: when isAnimating is false the render position is the logical
\* position; in every state the render position lies on the segment between
\* the logical cell and itself or a cell next to it over an open wall (the
\* cell the step came from).
RenderNearLogical ==
    /\ ~isAnimating =>
            /\ remaining(player.x, playerRenderPos.x) = 0
            /\ remaining(player.y, playerRenderPos.y) = 0
    /\ \E c \in {player} \cup {moved(player, dir) : dir \in Directions} :
            /\ c = player \/ (c \in Cells(mazeSize) /\ OpenBetween(maze, c, player))
            /\ betweenCoordinates(c.x, player.x, playerRenderPos.x)
            /\ betweenCoordinates(c.y, player.y, playerRenderPos.y)

RenderNearLogicalWitness ==
    /\ last.op = "tick"
    /\ last.isAnimating
    /\ ~isAnimating
    /\ variant = "part"
    /\ player.y > 0
    /\ playerRenderPos = [x |-> Whole(player.x), y |-> Whole(player.y)]

\* the four wall flags of the cell c of the maze mz
Walls(mz, c) ==
    <<mz[c.y][c.x].top, mz[c.y][c.x].right, mz[c.y][c.x].bottom, mz[c.y][c.x].left>>

\* C18: the resize handler, run in any state, leaves the grid side and every
\* wall flag of every cell as they were.
ResizeKeepsTopology ==
    [][Resize =>
        /\ mazeSize' = mazeSize
        /\ \A c \in Cells(mazeSize) : Walls(maze', c) = Walls(maze, c)]_vars

\* C19: the resize handler never changes the level; in state start or
\* playing it runs setupLevel for the current level (playing, the maze size of
\* the level, the player back at (0,0), no star collected), in any other
\* state it changes nothing of the game.
ResizeKeepsLevel ==
    [][Resize =>
        /\ level' = level
        /\ gameState \in {"start", "playing"} =>
                /\ gameState' = "playing"
                /\ mazeSize' = mazeSizeFor(level)
                /\ player' = Position(0, 0)
                /\ ~isAnimating'
                /\ collectedStars' = 0
        /\ gameState \notin {"start", "playing"} =>
                UNCHANGED <<gameState, maze, mazeSize, player, playerRenderPos,
                            exit, stars, collectedStars, isAnimating>>]_vars

ResizeKeepsLevelWitness ==
    /\ last.op = "resize"
    /\ last.gameState = "playing"
    /\ last.level = 2
    /\ last.player # Position(0, 0)
    /\ level = 2
    /\ player = Position(0, 0)
    /\ gameState = "playing"

\* the maze mz of side n is perfect and wall-consistent: every cell is the
\* end of a walk from (0,0) over open walls, there are n * n - 1 open walls,
\* and the two flags of every shared wall agree
IsPerfect(mz, n) ==
    /\ \A c \in Cells(n) :
            IsSimpleWalk(mz, findShortestPath(mz, n, Position(0, 0), c),
                         Position(0, 0), c)
    /\ Cardinality(Edges(mz, n)) = n * n - 1
    /\ \A a \in Cells(n), dir \in Directions :
            moved(a, dir) \in Cells(n) =>
                FlagToward(mz, a, moved(a, dir)) = FlagToward(mz, moved(a, dir), a)

\* IsPerfect of the maze of each grid size and random value, computed once
generatedIsPerfect ==
    [n \in LevelSizes |-> [r \in RandomValues |-> IsPerfect(generatedMaze[n][r], n)]]

\* the game state is what one call setupLevel(level) leaves, with a perfect
\* maze: nothing of it is older than that call
FreshLevel ==
    \E r \in RandomValues :
        LET s == setupLevel(level, r)
        IN  /\ generatedIsPerfect[s.mazeSize][r]
            /\ mazeSize = s.mazeSize
            /\ maze = s.maze
            /\ exit = s.exit
            /\ stars = s.stars
            /\ \A i \in 1..Len(stars) :
                    \E j \in 2..(Len(generatedPath[mazeSize][r]) - 1) :
                        stars[i] = generatedPath[mazeSize][r][j]
            /\ player = Position(0, 0)
            /\ playerRenderPos = [x |-> Whole(0), y |-> Whole(0)]
            /\ ~isAnimating
            /\ collectedStars = 0
            /\ gameState = "playing"

\* C20: after two calls of setupLevel in a row the maze is a perfect,
\* wall-consistent maze of the size of the level, the player is idle at (0,0)
\* with the render position (0,0), collectedStars is 0, the state is playing,
\* the stars are those the second call placed on its solution path, and no
\* direction state is left: the current and the desired direction are zero
\* and no direction flag of keysDown is set.
DoubleSetupClean ==
    setupCalls = 2 =>
        /\ FreshLevel
        /\ currentDirection = NoDirection
        /\ desiredDirection = NoDirection
        /\ \A k \in KeyNames : ~keysDown[k]

\* the part of C20 that is not about keysDown
DoubleSetupFresh ==
    setupCalls = 2 =>
        /\ FreshLevel
        /\ currentDirection = NoDirection
        /\ desiredDirection = NoDirection

\* C21: generateMaze's loop ends for every grid side and every sequence of
\* neighbour choices: the stack becomes empty, the loop has made at most
\* 2 * n * n iterations, and when the stack is empty every cell is visited.
GenerateMazeTerminates ==
    /\ [](iterations <= 2 * mazeSize * mazeSize)
    /\ [](Len(stack) = 0 =>
            \A c \in Cells(mazeSize) : maze[c.y][c.x].visited)
    /\ <>(Len(stack) = 0)

GenerateMazeTerminatesWitness ==
    /\ Len(stack) = 0
    /\ mazeSize = 3
    /\ iterations = 2 * mazeSize * mazeSize - 1
    /\ last.op = "backtrack"

\* C22: after setupLevel for a level of 1..MaxSetupLevel, and until the next
\* setup, mazeSize is 10 up to level 2, 15 up to level 5, 20 up to level 8 and
\* 25 beyond, the maze is a mazeSize by mazeSize grid, and the exit is in the
\* last column at a row of the grid.
LevelGeometry ==
    /\ mazeSize = IF level <= 2 THEN 10
                  ELSE IF level <= 5 THEN 15
                  ELSE IF level <= 8 THEN 20
                  ELSE 25
    /\ DOMAIN maze = 0..(mazeSize - 1)
    /\ \A y \in DOMAIN maze : DOMAIN maze[y] = 0..(mazeSize - 1)
    /\ exit.x = mazeSize - 1
    /\ exit.y \in 0..(mazeSize - 1)

LevelGeometryWitness ==
    /\ level = 9
    /\ mazeSize = 25
    /\ last.op = "resize"
    /\ last.level = 9
    /\ exit.y > 0
    /\ variant = "part"
    /\ keysDown.down

\* C23: in index.tsx, a tick that begins in state playing with no animation
\* running, a non-zero current direction and the exactly opposite desired
\* direction makes the desired direction the current one and steps one cell
\* that way in that same tick.
InstantReversal ==
    [][(/\ Tick
        /\ variant = "index"
        /\ gameState = "playing"
        /\ ~isAnimating
        /\ currentDirection # NoDirection
        /\ desiredDirection = [dx |-> -currentDirection.dx,
                               dy |-> -currentDirection.dy])
       => /\ currentDirection' = desiredDirection
          /\ player' = moved(player, desiredDirection)
          /\ isAnimating']_vars

InstantReversalWitness ==
    /\ variant = "index"
    /\ last.op = "tick"
    /\ last.gameState = "playing"
    /\ ~last.isAnimating
    /\ last.currentDirection # NoDirection
    /\ currentDirection = [dx |-> -last.currentDirection.dx,
                           dy |-> -last.currentDirection.dy]
    /\ desiredDirection = currentDirection
    /\ player = moved(last.player, currentDirection)
    /\ isAnimating

\* a tick of index.tsx that begins in state playing with no animation running
IdleTickIndex ==
    /\ Tick
    /\ variant = "index"
    /\ gameState = "playing"
    /\ ~isAnimating

\* C24 as stated: on every idle tick of index.tsx in state playing the player
\* steps one cell in the direction chosen after the desired direction has
\* been considered and that direction is kept, when it is passable; otherwise
\* the current direction is reset to (0,0) and the player stays.
HeldDirectionKept ==
    [][IdleTickIndex =>
        IF canMove(maze, player, chosenDirection)
        THEN /\ player' = moved(player, chosenDirection)
             /\ currentDirection' = chosenDirection
        ELSE /\ player' = player
             /\ currentDirection' = NoDirection]_vars

\* C24 (amended): as above, except that the step onto the exit wins the level
\* and resets both directions to (0,0); and when input stops, the player of
\* index.tsx becomes idle with current direction (0,0), or the level is won.
HeldDirection ==
    /\ [][IdleTickIndex =>
            IF canMove(maze, player, chosenDirection)
            THEN /\ player' = moved(player, chosenDirection)
                 /\ IF player' = exit
                    THEN /\ gameState' = "won"
                         /\ currentDirection' = NoDirection
                         /\ desiredDirection' = NoDirection
                    ELSE /\ gameState' = "playing"
                         /\ currentDirection' = chosenDirection
            ELSE /\ player' = player
                 /\ currentDirection' = NoDirection]_vars
    /\ \/ []<><<\E dir \in Directions : SetDirection(dir)>>_vars
       \/ []<>(\/ ~isAnimating /\ currentDirection = NoDirection
               \/ gameState = "won")

HeldDirectionWitness ==
    /\ variant = "index"
    /\ last.op = "tick"
    /\ last.gameState = "playing"
    /\ ~last.isAnimating
    /\ last.currentDirection # NoDirection
    /\ gameState = "playing"
    /\ ~isAnimating
    /\ currentDirection = NoDirection
    /\ player = last.player
    /\ player # Position(0, 0)

\* C25: in part_000 a flag of keysDown is true only while the key or the
\* button of its direction is held down, and the player takes a grid step
\* only on a tick at which some key or button is held down.
KeysDownOnlyWhileHeld ==
    [][/\ \A k \in KeyNames :
            keysDown'[k] => \E d \in Devices : Held(d, k) \in held'
       /\ (Tick /\ player' # player) => held # {}]_vars

\* C26: in both variants a step animation that has started completes: every
\* tick that begins with isAnimating true either takes the animation one tick
\* further or ends it with the render position on the logical cell, the step
\* onto the exit included.
AnimationCompletes ==
    [][(Tick /\ isAnimating) =>
        IF isAnimating'
        THEN ticksAnimated' = ticksAnimated + 1
        ELSE playerRenderPos' = [x |-> Whole(player.x), y |-> Whole(player.y)]]_vars

\* the star cells of a star list
StarCells(ss) == {ss[i] : i \in 1..Len(ss)}

\* C27: between two setups collectedStars plus the number of stars left is
\* the number generateStars placed, collectedStars is at most TOTAL_STARS,
\* the stars left are on distinct cells, and stars and collectedStars change
\* exactly on the tick in which the player's logical position enters a star
\* cell: that star alone is removed and collectedStars grows by one.
StarConservation ==
    /\ [](collectedStars + Len(stars) =
            Min(TOTAL_STARS, Len(solutionPath(maze, mazeSize, exit)) - 2))
    /\ [](collectedStars <= TOTAL_STARS)
    /\ [](Cardinality(StarCells(stars)) = Len(stars))
    /\ [][Tick =>
            IF player' # player /\ player' \in StarCells(stars)
            THEN /\ collectedStars' = collectedStars + 1
                 /\ Len(stars') = Len(stars) - 1
                 /\ StarCells(stars') = StarCells(stars) \ {player'}
            ELSE UNCHANGED <<stars, collectedStars>>]_vars
    /\ [][(~Tick /\ setupCalls' = 0) => UNCHANGED <<stars, collectedStars>>]_vars

StarConservationWitness ==
    /\ variant = "part"
    /\ last.op = "tick"
    /\ ~last.isAnimating
    /\ isAnimating
    /\ player # last.player
    /\ \E r \in RandomValues :
        /\ maze = generatedMaze[mazeSize][r]
        /\ exit.y = randomIndex(r, mazeSize)
        /\ player \in StarCells(generatedStars[mazeSize][r])
    /\ player \notin StarCells(stars)
    /\ collectedStars = TOTAL_STARS
    /\ Len(stars) = 0

====
